---- MODULE Spec2Model ----
(***************************************************************************)
(* Model of swap_drift_tracker.py: the "Analyse" handler of the carry       *)
(* drift tracker (rate parser + differential classifier) and the widgets   *)
(* that feed it.                                                           *)
(*                                                                         *)
(* Text.  A line of the text area is a sequence of symbols.  A symbol is   *)
(* one character when the character matters to the line pattern (a blank,  *)
(* a tab, a digit, ".", "%", "-") and otherwise a whole word, i.e. a run   *)
(* of characters that are neither whitespace, digits nor dots.  The text   *)
(* area's content is the sequence of its lines (what splitlines() gives).  *)
(*                                                                         *)
(* Numbers.  A rate is a Python float; here it is an integer count of      *)
(* 1/10000 of a percentage point, so 5.50 is 55000 and 2.0004 is 20004.    *)
(* Subtraction and comparison are exact on these; the binary rounding of   *)
(* the float subtraction is not modelled.                                  *)
(***************************************************************************)
EXTENDS Integers, Sequences, FiniteSets, TLC

VARIABLES
    raw_input,         \* text area: sequence of lines, each a sequence of symbols
    min_differential,  \* number input "Minimum Rate Differential (%)", in 1/10000
    show_analysis,     \* checkbox "Show Detailed Trend Analysis"
    show_strategy,     \* checkbox "Show Systematic Trading Strategy"
    message,           \* outcome of the last run of the handler
    rate_data,         \* list of <<currency, rate>> built by the line loop
    rates_dict,        \* dict(rate_data)
    results_long,      \* list of Long records
    results_short,     \* list of Short records
    watchlist,         \* create_strategic_watchlist(rates_dict), when rendered
    summary,           \* the four summary metrics, when rendered
    shown              \* the sections the run rendered

vars == << raw_input, min_differential, show_analysis, show_strategy, message,
           rate_data, rates_dict, results_long, results_short, watchlist,
           summary, shown >>

\* Largest number of lines typed into the text area line by line.
MaxLines == 2

\* whole.frac4 percentage points in units of 1/10000 (frac4 has four digits).
Percent(whole, frac4) == whole * 10000 + frac4

Abs(x) == IF x < 0 THEN -x ELSE x

Max(S) == CHOOSE x \in S : \A y \in S : y <= x

Min(S) == CHOOSE x \in S : \A y \in S : x <= y

(***************************************************************************)
(* Static tables                                                           *)
(***************************************************************************)
None == "None"

FederalReserve == << "Federal", " ", "Reserve" >>
EuropeanCentralBank == << "European", " ", "Central", " ", "Bank" >>
BankOfEngland == << "Bank", " ", "of", " ", "England" >>
ReserveBankOfAustralia == << "Reserve", " ", "Bank", " ", "of", " ", "Australia" >>
ReserveBankOfNewZealand ==
    << "Reserve", " ", "Bank", " ", "of", " ", "New", " ", "Zealand" >>
BankOfJapan == << "Bank", " ", "of", " ", "Japan" >>
BankOfCanada == << "Bank", " ", "of", " ", "Canada" >>
SwissNationalBank == << "Swiss", " ", "National", " ", "Bank" >>

\* bank_to_currency.get(label): exact match of the whole label, else None.
bank_to_currency(label) ==
    CASE label = FederalReserve -> "USD"
      [] label = EuropeanCentralBank -> "EUR"
      [] label = BankOfEngland -> "GBP"
      [] label = ReserveBankOfAustralia -> "AUD"
      [] label = ReserveBankOfNewZealand -> "NZD"
      [] label = BankOfJapan -> "JPY"
      [] label = BankOfCanada -> "CAD"
      [] label = SwissNationalBank -> "CHF"
      [] OTHER -> None

\* The keys of bank_to_currency and its values.
Banks ==
    { FederalReserve, EuropeanCentralBank, BankOfEngland, ReserveBankOfAustralia,
      ReserveBankOfNewZealand, BankOfJapan, BankOfCanada, SwissNationalBank }

Currencies == { bank_to_currency(b) : b \in Banks }

\* Variant: the list also holds USD/EUR, the reverse of its first entry.
VALID_PAIRS_WithReverse ==
    << << "EUR", "USD" >>, << "GBP", "USD" >>, << "USD", "JPY" >>,
       << "USD", "CHF" >>, << "AUD", "USD" >>, << "USD", "CAD" >>,
       << "NZD", "USD" >>, << "USD", "EUR" >>,
       << "EUR", "GBP" >>, << "EUR", "JPY" >>, << "EUR", "CHF" >>,
       << "EUR", "AUD" >>, << "EUR", "CAD" >>, << "EUR", "NZD" >>,
       << "GBP", "JPY" >>, << "GBP", "CHF" >>, << "GBP", "AUD" >>,
       << "GBP", "CAD" >>, << "GBP", "NZD" >>,
       << "AUD", "JPY" >>, << "CAD", "JPY" >>, << "CHF", "JPY" >>,
       << "NZD", "JPY" >>,
       << "AUD", "CAD" >>, << "AUD", "CHF" >>, << "AUD", "NZD" >>,
       << "CAD", "CHF" >>, << "NZD", "CAD" >>, << "NZD", "CHF" >> >>

\* Each entry is pair.split('/') of the source's "BASE/QUOTE" string.
VALID_PAIRS ==
    << << "EUR", "USD" >>, << "GBP", "USD" >>, << "USD", "JPY" >>,
       << "USD", "CHF" >>, << "AUD", "USD" >>, << "USD", "CAD" >>,
       << "NZD", "USD" >>,
       << "EUR", "GBP" >>, << "EUR", "JPY" >>, << "EUR", "CHF" >>,
       << "EUR", "AUD" >>, << "EUR", "CAD" >>, << "EUR", "NZD" >>,
       << "GBP", "JPY" >>, << "GBP", "CHF" >>, << "GBP", "AUD" >>,
       << "GBP", "CAD" >>, << "GBP", "NZD" >>,
       << "AUD", "JPY" >>, << "CAD", "JPY" >>, << "CHF", "JPY" >>,
       << "NZD", "JPY" >>,
       << "AUD", "CAD" >>, << "AUD", "CHF" >>, << "AUD", "NZD" >>,
       << "CAD", "CHF" >>, << "NZD", "CAD" >>, << "NZD", "CHF" >> >>

(***************************************************************************)
(* Rate parser: re.match(r"(.+?)\s+([\d.]+)\s*%?", line), strip, float     *)
(***************************************************************************)
Whitespace == { " ", "\t" }

Digits == { "0", "1", "2", "3", "4", "5", "6", "7", "8", "9" }

NumChars == Digits \cup { "." }

\* Index of the last symbol of the longest run of symbols of S that starts at
\* index k of line (k - 1 when line[k] is not in S).
RunEnd(line, k, S) ==
    CHOOSE j \in (k - 1)..Len(line) :
        /\ \A m \in k..j : line[m] \in S
        /\ j = Len(line) \/ line[j + 1] \notin S

\* The lengths i of group 1 for which the rest of the pattern matches: a
\* non-empty whitespace run after line[i], then a digit or a dot.
SplitPoints(line) ==
    { i \in 1..Len(line) :
        LET j == RunEnd(line, i + 1, Whitespace)
        IN  j > i /\ j < Len(line) /\ line[j + 1] \in NumChars }

\* re.match: group 1 is lazy (the shortest prefix), group 2 is greedy.
LineMatch(line) ==
    IF SplitPoints(line) = {}
    THEN [ matched |-> FALSE, bank |-> << >>, rate |-> << >> ]
    ELSE LET i == Min(SplitPoints(line))
             j == RunEnd(line, i + 1, Whitespace)
         IN  [ matched |-> TRUE,
               bank |-> SubSeq(line, 1, i),
               rate |-> SubSeq(line, j + 1, RunEnd(line, j + 1, NumChars)) ]

\* Variant: the label is looked up as matched, untrimmed.
StripNothing(s) == s

\* str.strip()
Strip(s) ==
    LET keep == { k \in 1..Len(s) : s[k] \notin Whitespace }
    IN  IF keep = {} THEN << >> ELSE SubSeq(s, Min(keep), Max(keep))

DigitVal(c) ==
    CASE c = "0" -> 0 [] c = "1" -> 1 [] c = "2" -> 2 [] c = "3" -> 3
      [] c = "4" -> 4 [] c = "5" -> 5 [] c = "6" -> 6 [] c = "7" -> 7
      [] c = "8" -> 8 [] c = "9" -> 9

\* float(token) raises ValueError unless the token has a digit and at most
\* one dot.
FloatRaises(token) ==
    \/ Cardinality({ k \in 1..Len(token) : token[k] = "." }) > 1
    \/ \A k \in 1..Len(token) : token[k] \notin Digits

RECURSIVE DigitsValue(_)
DigitsValue(ds) ==
    IF ds = << >> THEN 0
    ELSE 10 * DigitsValue(SubSeq(ds, 1, Len(ds) - 1)) + DigitVal(ds[Len(ds)])

\* Variant: the token is read as int() would read its whole part.
FloatWholeOnly(token) ==
    LET dots == { k \in 1..Len(token) : token[k] = "." }
        d == IF dots = {} THEN Len(token) + 1 ELSE Min(dots)
    IN  Percent(DigitsValue(SubSeq(token, 1, d - 1)), 0)

\* float(token) for a token float accepts, in 1/10000: the fractional part is
\* read to four digits (the tokens of this model carry no more).
Float(token) ==
    LET dots == { k \in 1..Len(token) : token[k] = "." }
        d == IF dots = {} THEN Len(token) + 1 ELSE Min(dots)
        whole == SubSeq(token, 1, d - 1)
        frac == SubSeq(token, d + 1, Len(token))
        frac4 == [ k \in 1..4 |-> IF k <= Len(frac) THEN frac[k] ELSE "0" ]
    IN  Percent(DigitsValue(whole), DigitsValue(frac4))

\* The line loop from line i on, with the list built so far.  raised: float()
\* raised ValueError, which nothing catches, and the run stops there.
RECURSIVE ParseLines(_, _, _)
ParseLines(lines, i, acc) ==
    IF i > Len(lines) THEN [ raised |-> FALSE, rate_data |-> acc ]
    ELSE LET match == LineMatch(lines[i])
             currency == bank_to_currency(Strip(match.bank))
         IN  IF match.matched /\ currency # None
             THEN IF FloatRaises(match.rate)
                  THEN [ raised |-> TRUE, rate_data |-> acc ]
                  ELSE ParseLines(lines, i + 1,
                                  Append(acc, << currency, Float(match.rate) >>))
             ELSE ParseLines(lines, i + 1, acc)

\* Variant: the first tuple of a currency wins.
DictOfFirstWins(data) ==
    [ c \in { data[k][1] : k \in DOMAIN data } |->
        data[Min({ k \in DOMAIN data : data[k][1] = c })][2] ]

\* dict(rate_data): one key per currency; a later tuple overwrites an earlier.
DictOf(data) ==
    [ c \in { data[k][1] : k \in DOMAIN data } |->
        data[Max({ k \in DOMAIN data : data[k][1] = c })][2] ]

\* not raw_input.strip(): no line holds anything but whitespace.
IsBlank(text) ==
    \A i \in DOMAIN text : \A k \in DOMAIN text[i] : text[i][k] \in Whitespace

(***************************************************************************)
(* Differential classifier                                                 *)
(***************************************************************************)
\* round(x, 3): to the nearest multiple of 0.001.  A float difference is
\* never exactly halfway; on the integers of this model a halfway value goes
\* to the even neighbour (the inputs of the model produce none).
Round3(x) ==
    LET q == Abs(x) \div 10
        r == Abs(x) % 10
        n == IF r > 5 \/ (r = 5 /\ q % 2 = 1) THEN q + 1 ELSE q
    IN  IF x < 0 THEN -(n * 10) ELSE n * 10

\* Variant: the tier boundaries are inclusive.
analyze_carry_implications_inclusive(rate_differential, pair) ==
    LET abs_diff == Abs(rate_differential)
    IN  IF abs_diff >= Percent(2, 0)
        THEN IF rate_differential > 0
             THEN [ TrendBias |-> "Strongly Bullish in Risk-On",
                    RiskLevel |-> "High",
                    MarketBehavior |-> "Trends persistently, shallow pullbacks" ]
             ELSE [ TrendBias |-> "Bearish in Risk-On / Bullish in Risk-Off",
                    RiskLevel |-> "High",
                    MarketBehavior |->
                        "Often weak in stable markets, spikes in crises" ]
        ELSE IF abs_diff >= Percent(0, 5000)
        THEN IF rate_differential > 0
             THEN [ TrendBias |-> "Mildly Bullish",
                    RiskLevel |-> "Medium",
                    MarketBehavior |-> "Moderate trending, sentiment-dependent" ]
             ELSE [ TrendBias |-> "Mixed",
                    RiskLevel |-> "Medium",
                    MarketBehavior |-> "Range-bound with directional spikes" ]
        ELSE [ TrendBias |-> "Neutral",
               RiskLevel |-> "Low",
               MarketBehavior |-> "Driven by other fundamentals" ]

analyze_carry_implications(rate_differential, pair) ==
    LET abs_diff == Abs(rate_differential)
    IN  IF abs_diff > Percent(2, 0)
        THEN IF rate_differential > 0
             THEN [ TrendBias |-> "Strongly Bullish in Risk-On",
                    RiskLevel |-> "High",
                    MarketBehavior |-> "Trends persistently, shallow pullbacks" ]
             ELSE [ TrendBias |-> "Bearish in Risk-On / Bullish in Risk-Off",
                    RiskLevel |-> "High",
                    MarketBehavior |->
                        "Often weak in stable markets, spikes in crises" ]
        ELSE IF abs_diff > Percent(0, 5000)
        THEN IF rate_differential > 0
             THEN [ TrendBias |-> "Mildly Bullish",
                    RiskLevel |-> "Medium",
                    MarketBehavior |-> "Moderate trending, sentiment-dependent" ]
             ELSE [ TrendBias |-> "Mixed",
                    RiskLevel |-> "Medium",
                    MarketBehavior |-> "Range-bound with directional spikes" ]
        ELSE [ TrendBias |-> "Neutral",
               RiskLevel |-> "Low",
               MarketBehavior |-> "Driven by other fundamentals" ]

\* base in rates_dict and quote in rates_dict
HasBothLegs(pair, rates) == pair[1] \in DOMAIN rates /\ pair[2] \in DOMAIN rates

\* Variant: the floor is exclusive.
MeetsMinimumStrict(diff, minimum) == Abs(diff) > minimum

\* abs(diff) >= min_differential
MeetsMinimum(diff, minimum) == Abs(diff) >= minimum

LongRecord(pair, rates) ==
    LET rate_base == rates[pair[1]]
        rate_quote == rates[pair[2]]
        diff == rate_base - rate_quote
        analysis == analyze_carry_implications(diff, pair)
    IN  [ CurrencyPair |-> pair,
          Position |-> "Long",
          RateDifferential |-> Round3(diff),
          Carry |-> IF diff > 0 THEN "Earn" ELSE "Pay",
          BaseRate |-> rate_base,
          QuoteRate |-> rate_quote,
          TrendBias |-> analysis.TrendBias,
          RiskLevel |-> analysis.RiskLevel,
          MarketBehavior |-> analysis.MarketBehavior ]

\* Variant: the short record keeps the sign of the long differential.
ShortRecordSameSign(pair, rates) ==
    LET rate_base == rates[pair[1]]
        rate_quote == rates[pair[2]]
        diff == rate_base - rate_quote
        short_analysis == analyze_carry_implications(-diff, pair)
    IN  [ CurrencyPair |-> pair,
          Position |-> "Short",
          RateDifferential |-> Round3(diff),
          Carry |-> IF diff < 0 THEN "Earn" ELSE "Pay",
          BaseRate |-> rate_base,
          QuoteRate |-> rate_quote,
          TrendBias |-> short_analysis.TrendBias,
          RiskLevel |-> short_analysis.RiskLevel,
          MarketBehavior |-> short_analysis.MarketBehavior ]

ShortRecord(pair, rates) ==
    LET rate_base == rates[pair[1]]
        rate_quote == rates[pair[2]]
        diff == rate_base - rate_quote
        short_analysis == analyze_carry_implications(-diff, pair)
    IN  [ CurrencyPair |-> pair,
          Position |-> "Short",
          RateDifferential |-> Round3(-diff),
          Carry |-> IF diff < 0 THEN "Earn" ELSE "Pay",
          BaseRate |-> rate_base,
          QuoteRate |-> rate_quote,
          TrendBias |-> short_analysis.TrendBias,
          RiskLevel |-> short_analysis.RiskLevel,
          MarketBehavior |-> short_analysis.MarketBehavior ]

\* The pairs the loop over VALID_PAIRS appends records for, in catalog order.
EmittedPairs(rates, minimum) ==
    LET Emits(pair) ==
            /\ HasBothLegs(pair, rates)
            /\ MeetsMinimum(rates[pair[1]] - rates[pair[2]], minimum)
    IN  SelectSeq(VALID_PAIRS, Emits)

\* Variant: only the base is looked for, the quote read with .get(quote, 0.0).
ResultsLongNoGuard(rates, minimum) ==
    LET Quote(pair) == IF pair[2] \in DOMAIN rates THEN rates[pair[2]] ELSE 0
        Emits(pair) ==
            /\ pair[1] \in DOMAIN rates
            /\ MeetsMinimum(rates[pair[1]] - Quote(pair), minimum)
        pairs == SelectSeq(VALID_PAIRS, Emits)
    IN  [ k \in 1..Len(pairs) |->
            LET diff == rates[pairs[k][1]] - Quote(pairs[k])
                analysis == analyze_carry_implications(diff, pairs[k])
            IN  [ CurrencyPair |-> pairs[k],
                  Position |-> "Long",
                  RateDifferential |-> Round3(diff),
                  Carry |-> IF diff > 0 THEN "Earn" ELSE "Pay",
                  BaseRate |-> rates[pairs[k][1]],
                  QuoteRate |-> Quote(pairs[k]),
                  TrendBias |-> analysis.TrendBias,
                  RiskLevel |-> analysis.RiskLevel,
                  MarketBehavior |-> analysis.MarketBehavior ] ]

ResultsLong(rates, minimum) ==
    LET pairs == EmittedPairs(rates, minimum)
    IN  [ k \in 1..Len(pairs) |-> LongRecord(pairs[k], rates) ]

ResultsShort(rates, minimum) ==
    LET pairs == EmittedPairs(rates, minimum)
    IN  [ k \in 1..Len(pairs) |-> ShortRecord(pairs[k], rates) ]

(***************************************************************************)
(* Strategic watchlist and summary                                         *)
(***************************************************************************)
EmptyWatchlist ==
    [ Primary |-> << >>, Secondary |-> << >>, RiskOff |-> << >>, Neutral |-> << >> ]

\* The category the if/elif chain of create_strategic_watchlist picks.
\* Variant: the risk-off bound is inclusive.
WatchCategoryInclusive(diff) ==
    IF diff > Percent(2, 0) THEN "Primary"
    ELSE IF diff > Percent(0, 5000) THEN "Secondary"
    ELSE IF diff <= -Percent(1, 0) THEN "RiskOff"
    ELSE "Neutral"

WatchCategory(diff) ==
    IF diff > Percent(2, 0) THEN "Primary"
    ELSE IF diff > Percent(0, 5000) THEN "Secondary"
    ELSE IF diff < -Percent(1, 0) THEN "RiskOff"
    ELSE "Neutral"

WatchEntry(pair, diff) ==
    [ pair |-> pair,
      diff |-> diff,
      direction |->
          CASE WatchCategory(diff) \in { "Primary", "Secondary" } -> "LONG"
            [] WatchCategory(diff) = "RiskOff" ->
                   IF diff > 0 THEN "SHORT" ELSE "LONG"
            [] OTHER -> "NEUTRAL" ]

\* list.sort(key=abs(diff), reverse=True): stable, largest |diff| first.
RECURSIVE SortByAbsDiff(_)
SortByAbsDiff(entries) ==
    IF entries = << >> THEN << >>
    ELSE LET front == SortByAbsDiff(SubSeq(entries, 1, Len(entries) - 1))
             x == entries[Len(entries)]
             n == Cardinality({ k \in DOMAIN front :
                                  Abs(front[k].diff) >= Abs(x.diff) })
         IN  SubSeq(front, 1, n) \o << x >> \o SubSeq(front, n + 1, Len(front))

create_strategic_watchlist(rates) ==
    LET Listed(pair) == HasBothLegs(pair, rates)
        pairs == SelectSeq(VALID_PAIRS, Listed)
        entries == [ k \in 1..Len(pairs) |->
                       WatchEntry(pairs[k], rates[pairs[k][1]] - rates[pairs[k][2]]) ]
        Of(category) ==
            LET In(e) == WatchCategory(e.diff) = category
            IN  SortByAbsDiff(SelectSeq(entries, In))
    IN  [ Primary |-> Of("Primary"), Secondary |-> Of("Secondary"),
          RiskOff |-> Of("RiskOff"), Neutral |-> Of("Neutral") ]

NoSummary == [ Total |-> 0, Earn |-> 0, HighImpact |-> 0, Moderate |-> 0 ]

\* The four st.metric values, computed from the rounded differential column.
SummaryOf(long, short) ==
    LET Earns(r) == r.Carry = "Earn"
        High(r) == Abs(r.RateDifferential) > Percent(2, 0)
        Moderate(r) ==
            /\ Abs(r.RateDifferential) > Percent(0, 5000)
            /\ Abs(r.RateDifferential) <= Percent(2, 0)
    IN  [ Total |-> Len(long) + Len(short),
          Earn |-> Len(SelectSeq(long, Earns)) + Len(SelectSeq(short, Earns)),
          HighImpact |-> Len(SelectSeq(long, High)),
          Moderate |-> Len(SelectSeq(long, Moderate)) ]

\* The rows of the "High Impact Carry Pairs" detail section.
HighImpactRows(long) ==
    LET High(r) == Abs(r.RateDifferential) > Percent(2, 0)
    IN  SelectSeq(long, High)

(***************************************************************************)
(* Inputs                                                                  *)
(***************************************************************************)
Line(label, gap, token, tail) == label \o gap \o token \o tail

\* The sample table the page shows, one line per catalog bank.
SampleInput ==
    << Line(FederalReserve, << " " >>, << "5", ".", "5", "0" >>, << "%" >>),
       Line(EuropeanCentralBank, << " " >>, << "4", ".", "5", "0" >>, << "%" >>),
       Line(BankOfEngland, << " " >>, << "5", ".", "2", "5" >>, << "%" >>),
       Line(ReserveBankOfAustralia, << " " >>, << "4", ".", "3", "5" >>, << "%" >>),
       Line(ReserveBankOfNewZealand, << " " >>, << "5", ".", "5", "0" >>, << "%" >>),
       Line(BankOfJapan, << " " >>, << "0", ".", "1", "0" >>, << "%" >>),
       Line(BankOfCanada, << " " >>, << "5", ".", "0", "0" >>, << "%" >>),
       Line(SwissNationalBank, << " " >>, << "1", ".", "7", "5" >>, << "%" >>) >>

\* "bank rate%" lines whose rate differences fall on, between and beside the
\* classifier's boundaries.
PlainLines ==
    { Line(FederalReserve, << " " >>, << "5", ".", "5", "0" >>, << "%" >>),
      Line(FederalReserve, << " " >>, << "2", ".", "1", "0" >>, << "%" >>),
      Line(FederalReserve, << " " >>, << "0", ".", "6", "0" >>, << "%" >>),
      Line(FederalReserve, << " " >>, << "2", ".", "1", "0", "0", "4" >>, << "%" >>),
      Line(BankOfJapan, << " " >>, << "0", ".", "1", "0" >>, << "%" >>),
      Line(BankOfJapan, << " " >>, << "2", ".", "1", "0" >>, << " ", "%" >>),
      Line(EuropeanCentralBank, << " ", " " >>, << "4", ".", "5" >>, << >>) }

SomeRandomBank == << "Some", " ", "Random", " ", "Bank" >>

\* Lines that are not "bank rate%".
OddLines ==
    { \* leading blank, blank and tab before the number
      Line(<< " " >> \o FederalReserve, << " ", "\t" >>, << "5", ".", "5", "0" >>,
           << "%" >>),
      \* unknown label
      Line(SomeRandomBank, << " " >>, << "3", ".", "0", "0" >>, << "%" >>),
      \* unknown label, number that float() rejects
      Line(SomeRandomBank, << " " >>, << "1", ".", "2", ".", "3" >>, << "%" >>),
      \* no number
      Line(FederalReserve, << " " >>, << "five" >>, << " ", "percent" >>),
      \* known label, number of digits and dots that float() rejects
      Line(FederalReserve, << " " >>, << "1", ".", "2", ".", "3" >>, << "%" >>),
      \* label that itself holds a number
      Line(FederalReserve \o << " ", "2" >>, << " " >>, << "5", ".", "5", "0" >>,
           << "%" >>),
      \* different case
      Line(<< "federal", " ", "reserve" >>, << " " >>, << "5", ".", "5", "0" >>,
           << "%" >>),
      \* negative rate
      Line(BankOfJapan, << " " >>, << "-", "0", ".", "1", "0" >>, << "%" >>),
      \* whitespace only
      << " ", " " >> }

InputLines == PlainLines \cup OddLines

\* Values typed into the number input (0.0 to 10.0).
Thresholds == { 0, Percent(0, 1000), Percent(2, 0), Percent(2, 1) }

(***************************************************************************)
(* State machine                                                           *)
(***************************************************************************)
\* A rerun of the script without the button pressed renders no result.
NothingRendered ==
    /\ message' = "none"
    /\ rate_data' = << >>
    /\ rates_dict' = << >>
    /\ results_long' = << >>
    /\ results_short' = << >>
    /\ watchlist' = EmptyWatchlist
    /\ summary' = NoSummary
    /\ shown' = {}

Init ==
    /\ raw_input = << >>
    /\ min_differential = Percent(0, 1000)
    /\ show_analysis = TRUE
    /\ show_strategy = TRUE
    /\ message = "none"
    /\ rate_data = << >>
    /\ rates_dict = << >>
    /\ results_long = << >>
    /\ results_short = << >>
    /\ watchlist = EmptyWatchlist
    /\ summary = NoSummary
    /\ shown = {}

\* The user adds a line to the text area.
TypeLine ==
    /\ Len(raw_input) < MaxLines
    /\ \E line \in InputLines : raw_input' = Append(raw_input, line)
    /\ NothingRendered
    /\ UNCHANGED << min_differential, show_analysis, show_strategy >>

\* The user pastes the sample table.
PasteSample ==
    /\ raw_input # SampleInput
    /\ raw_input' = SampleInput
    /\ NothingRendered
    /\ UNCHANGED << min_differential, show_analysis, show_strategy >>

\* The user empties the text area.
ClearInput ==
    /\ raw_input # << >>
    /\ raw_input' = << >>
    /\ NothingRendered
    /\ UNCHANGED << min_differential, show_analysis, show_strategy >>

SetMinDifferential ==
    /\ \E t \in Thresholds : t # min_differential /\ min_differential' = t
    /\ NothingRendered
    /\ UNCHANGED << raw_input, show_analysis, show_strategy >>

ToggleAnalysis ==
    /\ show_analysis' = ~show_analysis
    /\ NothingRendered
    /\ UNCHANGED << raw_input, min_differential, show_strategy >>

ToggleStrategy ==
    /\ show_strategy' = ~show_strategy
    /\ NothingRendered
    /\ UNCHANGED << raw_input, min_differential, show_analysis >>

\* What the handler leaves when it stops with the given message and no result.
StopsWith(msg) ==
    /\ message' = msg
    /\ rate_data' = << >>
    /\ rates_dict' = << >>
    /\ results_long' = << >>
    /\ results_short' = << >>
    /\ watchlist' = EmptyWatchlist
    /\ summary' = NoSummary
    /\ shown' = {}

\* The sections rendered after a successful parse.
Sections(long) ==
    IF long = << >> THEN { "rates", "no_pairs" }
    ELSE { "rates", "earn", "pay", "summary", "csv" }
         \cup (IF show_analysis THEN { "analysis" } ELSE {})
         \cup (IF show_strategy THEN { "strategy" } ELSE {})

\* The button "Analyse".
Analyse ==
    /\ UNCHANGED << raw_input, min_differential, show_analysis, show_strategy >>
    /\ IF IsBlank(raw_input) THEN StopsWith("EmptyInput")
       ELSE LET parsed == ParseLines(raw_input, 1, << >>)
            IN  IF parsed.raised THEN StopsWith("ValueError")
                ELSE IF parsed.rate_data = << >> THEN StopsWith("NoValidData")
                ELSE LET rates == DictOf(parsed.rate_data)
                         long == ResultsLong(rates, min_differential)
                         short == ResultsShort(rates, min_differential)
                     IN  /\ message' = "Success"
                         /\ rate_data' = parsed.rate_data
                         /\ rates_dict' = rates
                         /\ results_long' = long
                         /\ results_short' = short
                         /\ watchlist' =
                                IF long # << >> /\ show_strategy
                                THEN create_strategic_watchlist(rates)
                                ELSE EmptyWatchlist
                         /\ summary' =
                                IF long # << >> THEN SummaryOf(long, short)
                                ELSE NoSummary
                         /\ shown' = Sections(long)

Next ==
    \/ TypeLine
    \/ PasteSample
    \/ ClearInput
    \/ SetMinDifferential
    \/ ToggleAnalysis
    \/ ToggleStrategy
    \/ Analyse

Spec == Init /\ [][Next]_vars

(***************************************************************************)
(* Properties                                                              *)
(***************************************************************************)
\* The positions of the catalog pairs whose two currencies both have a rate.
RatedPairs == { k \in DOMAIN VALID_PAIRS : HasBothLegs(VALID_PAIRS[k], rates_dict) }

RateDiff(pair) == rates_dict[pair[1]] - rates_dict[pair[2]]

\* x is d rounded to a multiple of 0.001.
IsRounded3(x, d) == x % 10 = 0 /\ Abs(x - d) <= 5

\* C1 (antisymmetry): the k-th long and short records are the two directions
\* of one pair; the long differential is rb - rq rounded to 3 decimals and the
\* short one its negation; with rb # rq exactly one of the two carries is Earn
\* and the other Pay; with rb = rq both differentials are 0, and such a pair
\* is emitted only when the minimum differential is 0.
C1_Antisymmetry ==
    message = "Success" =>
        /\ Len(results_short) = Len(results_long)
        /\ \A k \in DOMAIN results_long :
             LET long == results_long[k]
                 short == results_short[k]
                 rb == rates_dict[long.CurrencyPair[1]]
                 rq == rates_dict[long.CurrencyPair[2]]
             IN  /\ short.CurrencyPair = long.CurrencyPair
                 /\ long.Position = "Long" /\ short.Position = "Short"
                 /\ IsRounded3(long.RateDifferential, rb - rq)
                 /\ short.RateDifferential = -long.RateDifferential
                 /\ rb # rq =>
                      { long.Carry, short.Carry } = { "Earn", "Pay" }
                 /\ rb = rq =>
                      /\ long.RateDifferential = 0
                      /\ short.RateDifferential = 0
                      /\ min_differential = 0
        /\ \A k \in RatedPairs :
             (RateDiff(VALID_PAIRS[k]) = 0 /\ min_differential > 0) =>
                 \A j \in DOMAIN results_long :
                     results_long[j].CurrencyPair # VALID_PAIRS[k]

\* A run at minimum 0 emitted a pair of equal rates, a pair whose long
\* direction earns and a pair whose short direction earns.
C1_Witness ==
    /\ message = "Success"
    /\ \E k \in DOMAIN results_long :
         /\ results_long[k].BaseRate = results_long[k].QuoteRate
         /\ results_long[k].RateDifferential = 0
    /\ \E k \in DOMAIN results_long :
         results_long[k].Carry = "Earn" /\ results_short[k].Carry = "Pay"
    /\ \E k \in DOMAIN results_long :
         results_long[k].Carry = "Pay" /\ results_short[k].Carry = "Earn"

\* C2 (inclusive floor on the whole pair): a rated catalog pair with
\* |rb - rq| >= minimum has exactly one Long and one Short record, and one
\* with |rb - rq| < minimum has neither.
C2_InclusiveFloor ==
    message = "Success" =>
        \A k \in RatedPairs :
            LET pair == VALID_PAIRS[k]
                longs == { j \in DOMAIN results_long :
                             results_long[j].CurrencyPair = pair }
                shorts == { j \in DOMAIN results_short :
                              results_short[j].CurrencyPair = pair }
            IN  IF Abs(RateDiff(pair)) >= min_differential
                THEN Cardinality(longs) = 1 /\ Cardinality(shorts) = 1
                ELSE longs = {} /\ shorts = {}

\* A pair whose |diff| is exactly 2.0 was emitted at minimum 2.0.
C2_Witness ==
    /\ message = "Success"
    /\ min_differential = Percent(2, 0)
    /\ \E j \in DOMAIN results_long :
         Abs(results_long[j].BaseRate - results_long[j].QuoteRate) = Percent(2, 0)

\* The bundle the claim assigns to a signed differential d.
TierOf(d) ==
    IF Abs(d) > 20000
    THEN << "High", IF d > 0 THEN "Strongly Bullish in Risk-On"
                    ELSE "Bearish in Risk-On / Bullish in Risk-Off" >>
    ELSE IF Abs(d) > 5000 /\ Abs(d) <= 20000
    THEN << "Medium", IF d > 0 THEN "Mildly Bullish" ELSE "Mixed" >>
    ELSE << "Low", "Neutral" >>

\* Differentials on and next to the two boundaries.
BoundaryDiffs ==
    { s * d : s \in { -1, 1 },
              d \in { 0, 4999, 5000, 5001, 19999, 20000, 20001, 54000 } }

\* C3 (strict tier boundaries): every record's Risk Level and Trend Bias are
\* those of the tier of its signed, unrounded differential, |d| > 2.0 large,
\* 0.5 < |d| <= 2.0 moderate, otherwise small; so are the bundles of the
\* differentials on and beside the boundaries.
C3_TierBoundaries ==
    /\ \A k \in DOMAIN results_long :
         LET r == results_long[k]
         IN  << r.RiskLevel, r.TrendBias >> = TierOf(r.BaseRate - r.QuoteRate)
    /\ \A k \in DOMAIN results_short :
         LET r == results_short[k]
         IN  << r.RiskLevel, r.TrendBias >> = TierOf(r.QuoteRate - r.BaseRate)
    /\ \A d \in BoundaryDiffs :
         LET a == analyze_carry_implications(d, << "USD", "JPY" >>)
         IN  << a.RiskLevel, a.TrendBias >> = TierOf(d)

\* A pair with differential exactly 2.0 was classified moderate in both
\* directions.
C3_Witness ==
    /\ message = "Success"
    /\ \E k \in DOMAIN results_long :
         /\ results_long[k].BaseRate - results_long[k].QuoteRate = 20000
         /\ results_long[k].RiskLevel = "Medium"
         /\ results_long[k].TrendBias = "Mildly Bullish"
         /\ results_short[k].RiskLevel = "Medium"
         /\ results_short[k].TrendBias = "Mixed"

\* C4 (no line fails the run): a run on a non-blank input ends in the
\* NoValidData message or in a rate mapping.
C4_NoLineFailsTheRun ==
    (message # "none" /\ ~IsBlank(raw_input)) =>
        message \in { "NoValidData", "Success" }

\* Some line of the input names a catalog bank before its number.
SomeKnownBankLine ==
    \E i \in DOMAIN raw_input :
        /\ LineMatch(raw_input[i]).matched
        /\ bank_to_currency(Strip(LineMatch(raw_input[i]).bank)) # None

\* C5 (two failure outcomes): a run on a blank input ends in EmptyInput, a
\* run on a non-blank input without a known-bank line ends in NoValidData,
\* every other run succeeds, and a failed run renders nothing.
C5_TwoFailureOutcomes ==
    message # "none" =>
        /\ IsBlank(raw_input) <=> message = "EmptyInput"
        /\ (~IsBlank(raw_input) /\ ~SomeKnownBankLine) <=> message = "NoValidData"
        /\ message \in { "EmptyInput", "NoValidData", "Success" }
        /\ message # "Success" =>
             /\ shown = {}
             /\ rates_dict = << >>
             /\ results_long = << >> /\ results_short = << >>
             /\ watchlist = EmptyWatchlist /\ summary = NoSummary

(* Lines "of the form label, whitespace, decimal number, optional percent   *)
(* sign", read from the end of the line and without the line pattern.      *)
FormEnd(line) ==
    IF line # << >> /\ line[Len(line)] = "%" THEN Len(line) - 1 ELSE Len(line)

\* Where the run of digits and dots that ends the form begins.
NumberStart(line) ==
    CHOOSE n \in 1..(FormEnd(line) + 1) :
        /\ \A m \in n..FormEnd(line) : line[m] \in NumChars
        /\ n = 1 \/ line[n - 1] \notin NumChars

FormNumber(line) == SubSeq(line, NumberStart(line), FormEnd(line))

\* The label, with the whitespace that separates it from the number.
FormLabel(line) == SubSeq(line, 1, NumberStart(line) - 1)

IsDecimal(token) ==
    /\ \E k \in DOMAIN token : token[k] \in Digits
    /\ Cardinality({ k \in DOMAIN token : token[k] = "." }) <= 1

HasForm(line) ==
    /\ IsDecimal(FormNumber(line))
    /\ NumberStart(line) >= 3
    /\ line[NumberStart(line) - 1] \in Whitespace

\* The label holds a whitespace character directly followed by a digit or dot.
LabelHoldsNumber(line) ==
    \E m \in 1..(NumberStart(line) - 2) :
        line[m] \in Whitespace /\ line[m + 1] \in NumChars

\* What the claim has a line of the form yield.
ExpectedEntry(line) ==
    LET currency == bank_to_currency(Strip(FormLabel(line)))
    IN  IF currency = None THEN << >>
        ELSE << << currency, Float(FormNumber(line)) >> >>

RECURSIVE ExpectedEntries(_)
ExpectedEntries(lines) ==
    IF lines = << >> THEN << >>
    ELSE ExpectedEntry(Head(lines)) \o ExpectedEntries(Tail(lines))

\* The run produced exactly the expected entries, or NoValidData for none.
YieldsExpected ==
    IF ExpectedEntries(raw_input) = << >> THEN message = "NoValidData"
    ELSE message = "Success" /\ rate_data = ExpectedEntries(raw_input)

\* C6 as stated: every line of the form yields (catalog[label], rate) when its
\* trimmed label is a catalog key and nothing otherwise.
C6_EveryFormedLine ==
    (/\ message # "none"
     /\ raw_input # << >>
     /\ \A i \in DOMAIN raw_input : HasForm(raw_input[i]))
    => YieldsExpected

\* C6 (amended): the same for the lines of the form whose label holds no
\* whitespace character directly followed by a digit or a dot.
C6_FormedLineWithPlainLabel ==
    (/\ message # "none"
     /\ raw_input # << >>
     /\ \A i \in DOMAIN raw_input :
          HasForm(raw_input[i]) /\ ~LabelHoldsNumber(raw_input[i]))
    => YieldsExpected

\* A run read a line with a leading blank and a blank and a tab before the
\* number, and a line with two blanks and no percent sign.
C6_Witness ==
    /\ message = "Success"
    /\ raw_input =
         << Line(<< " " >> \o FederalReserve, << " ", "\t" >>,
                 << "5", ".", "5", "0" >>, << "%" >>),
            Line(EuropeanCentralBank, << " ", " " >>, << "4", ".", "5" >>, << >>) >>
    /\ rate_data = << << "USD", 55000 >>, << "EUR", 45000 >> >>

\* C7 (mapping): the keys of the mapping are the currencies of the parsed
\* entries, one key each, all of them catalog currencies, and each key holds
\* the rate of the last entry of its currency.
C7_LastOccurrenceWins ==
    message = "Success" =>
        /\ DOMAIN rates_dict = { rate_data[k][1] : k \in DOMAIN rate_data }
        /\ DOMAIN rates_dict \subseteq Currencies
        /\ \A c \in DOMAIN rates_dict :
             \E k \in DOMAIN rate_data :
                 /\ rate_data[k] = << c, rates_dict[c] >>
                 /\ \A j \in DOMAIN rate_data : j > k => rate_data[j][1] # c

\* One bank was given twice with different rates and the second is kept.
C7_Witness ==
    /\ message = "Success"
    /\ Len(rate_data) = 2
    /\ rate_data[1][1] = rate_data[2][1]
    /\ rate_data[1][2] # rate_data[2][2]
    /\ rates_dict[rate_data[2][1]] = rate_data[2][2]

\* The two lines of the end-to-end example.
ExampleInput ==
    << Line(FederalReserve, << " " >>, << "5", ".", "5", "0" >>, << "%" >>),
       Line(BankOfJapan, << " " >>, << "0", ".", "1", "0" >>, << "%" >>) >>

\* C8 (end-to-end example): on the example input with minimum 0.1 the run
\* emits records for USD/JPY only, Long 5.40 Earn "Strongly Bullish in
\* Risk-On" and Short -5.40 Pay.
C8_EndToEndExample ==
    (message # "none" /\ raw_input = ExampleInput /\ min_differential = 1000) =>
        /\ message = "Success"
        /\ Len(results_long) = 1 /\ Len(results_short) = 1
        /\ results_long[1].CurrencyPair = << "USD", "JPY" >>
        /\ results_long[1].Position = "Long"
        /\ results_long[1].RateDifferential = 54000
        /\ results_long[1].Carry = "Earn"
        /\ results_long[1].TrendBias = "Strongly Bullish in Risk-On"
        /\ results_short[1].CurrencyPair = << "USD", "JPY" >>
        /\ results_short[1].Position = "Short"
        /\ results_short[1].RateDifferential = -54000
        /\ results_short[1].Carry = "Pay"

\* The example was run.
C8_Witness ==
    /\ message = "Success"
    /\ raw_input = ExampleInput
    /\ min_differential = 1000
    /\ Len(results_long) = 1

\* C9 (both legs): every record is of a catalog pair whose two currencies
\* have a rate, and a mapping of fewer than two currencies gives no record.
C9_BothLegsPresent ==
    /\ \A k \in DOMAIN results_long :
         HasBothLegs(results_long[k].CurrencyPair, rates_dict)
    /\ \A k \in DOMAIN results_short :
         HasBothLegs(results_short[k].CurrencyPair, rates_dict)
    /\ Cardinality(DOMAIN rates_dict) < 2 =>
         results_long = << >> /\ results_short = << >>

\* The only line was "Federal Reserve 5.50%", at minimum 0.
C9_Witness ==
    /\ message = "Success"
    /\ raw_input =
         << Line(FederalReserve, << " " >>, << "5", ".", "5", "0" >>, << "%" >>) >>
    /\ min_differential = 0
    /\ DOMAIN rates_dict = { "USD" }
    /\ results_long = << >>
    /\ "no_pairs" \in shown

Reverse(pair) == << pair[2], pair[1] >>

\* The catalog as a set.
CatalogPairs == { VALID_PAIRS[k] : k \in DOMAIN VALID_PAIRS }

\* C10 (asymmetric catalog): at most 28 entries, each of two distinct catalog
\* currencies, none repeated, none beside its reverse, every unordered pair
\* of currencies in exactly one orientation; a run has at most one Long
\* record per unordered pair.
C10_AsymmetricCatalog ==
    /\ Len(VALID_PAIRS) <= 28
    /\ \A k \in DOMAIN VALID_PAIRS :
         /\ VALID_PAIRS[k][1] \in Currencies
         /\ VALID_PAIRS[k][2] \in Currencies
         /\ VALID_PAIRS[k][1] # VALID_PAIRS[k][2]
    /\ Cardinality(CatalogPairs) = Len(VALID_PAIRS)
    /\ \A k \in DOMAIN VALID_PAIRS : Reverse(VALID_PAIRS[k]) \notin CatalogPairs
    /\ \A a, b \in Currencies :
         a # b => (<< a, b >> \in CatalogPairs) # (<< b, a >> \in CatalogPairs)
    /\ \A j, k \in DOMAIN results_long :
         j # k =>
             /\ results_long[j].CurrencyPair # results_long[k].CurrencyPair
             /\ results_long[j].CurrencyPair # Reverse(results_long[k].CurrencyPair)

\* The sample table was analysed at minimum 0: every catalog pair has a record.
C10_Witness ==
    /\ message = "Success"
    /\ raw_input = SampleInput
    /\ Len(results_long) = Len(VALID_PAIRS)
    /\ Cardinality(DOMAIN rates_dict) = 8

\* The Long records whose own Risk Level is the given one.
LongsOfRisk(level) ==
    { k \in DOMAIN results_long : results_long[k].RiskLevel = level }

\* C11 (summary agrees with the classification): a Long record is among the
\* High Impact rows and counts, tested on its rounded differential, exactly
\* when its Risk Level is High, and among the Moderate count exactly when its
\* Risk Level is Medium.
C11_SummaryAgreesWithRisk ==
    (message = "Success" /\ results_long # << >>) =>
        /\ \A k \in DOMAIN results_long :
             LET r == results_long[k]
             IN  /\ Abs(r.RateDifferential) > 20000 <=> r.RiskLevel = "High"
                 /\ (Abs(r.RateDifferential) > 5000
                       /\ Abs(r.RateDifferential) <= 20000)
                      <=> r.RiskLevel = "Medium"
        /\ summary.HighImpact = Cardinality(LongsOfRisk("High"))
        /\ summary.Moderate = Cardinality(LongsOfRisk("Medium"))
        /\ Len(HighImpactRows(results_long)) = Cardinality(LongsOfRisk("High"))

\* The N of the success message "Found interest rates for N currencies":
\* len(rate_data).
FoundCurrencies == Len(rate_data)

\* C12 (reported count): on a successful parse the N of the success message
\* is the number of distinct currencies of the mapping, the rows of the
\* Current Interest Rates table.
C12_CountIsDistinctCurrencies ==
    message = "Success" => FoundCurrencies = Cardinality(DOMAIN rates_dict)

WatchCategories == { "Primary", "Secondary", "RiskOff", "Neutral" }

\* The category the claim gives a differential.
ClaimedCategory(d) ==
    CASE d > 20000 -> "Primary"
      [] d > 5000 /\ d <= 20000 -> "Secondary"
      [] d < -10000 -> "RiskOff"
      [] d >= -10000 /\ d <= 5000 -> "Neutral"

\* Where a pair is listed: the <<category, position>> of its entries.
ListedAt(pair) ==
    { << c, j >> \in WatchCategories \X (1..Len(VALID_PAIRS)) :
        j <= Len(watchlist[c]) /\ watchlist[c][j].pair = pair }

\* C13 (watchlist categories): when the watchlist is created, every rated
\* catalog pair is listed exactly once, in the category of its diff
\* (> 2.0 Primary, 0.5 < diff <= 2.0 Secondary, < -1.0 Risk-Off, else Neutral),
\* whatever the minimum differential; a pair missing a leg is listed nowhere;
\* every Risk-Off entry has direction LONG.
C13_WatchlistCategories ==
    "strategy" \in shown =>
        /\ \A k \in DOMAIN VALID_PAIRS :
             LET pair == VALID_PAIRS[k]
             IN  IF HasBothLegs(pair, rates_dict)
                 THEN /\ Cardinality(ListedAt(pair)) = 1
                      /\ \A at \in ListedAt(pair) :
                           /\ at[1] = ClaimedCategory(RateDiff(pair))
                           /\ watchlist[at[1]][at[2]].diff = RateDiff(pair)
                 ELSE ListedAt(pair) = {}
        /\ \A j \in DOMAIN watchlist.RiskOff :
             watchlist.RiskOff[j].direction = "LONG"

\* The sample table at minimum 2.0: all four categories are filled, EUR/USD
\* (diff -1.0) and USD/CAD (diff 0.5) are Neutral, and both are listed though
\* the minimum kept them out of the records.
C13_Witness ==
    /\ "strategy" \in shown
    /\ raw_input = SampleInput
    /\ min_differential = 20000
    /\ \A c \in WatchCategories : watchlist[c] # << >>
    /\ \E j \in DOMAIN watchlist.Neutral :
         /\ watchlist.Neutral[j].pair = << "EUR", "USD" >>
         /\ watchlist.Neutral[j].diff = -10000
    /\ \E j \in DOMAIN watchlist.Neutral :
         /\ watchlist.Neutral[j].pair = << "USD", "CAD" >>
         /\ watchlist.Neutral[j].diff = 5000
    /\ \A k \in DOMAIN results_long :
         results_long[k].CurrencyPair \notin { << "EUR", "USD" >>, << "USD", "CAD" >> }

====
